---------------------------- MODULE Spec2Model ----------------------------
(***************************************************************************)
(* Model of the native focal-point picker                                  *)
(* (packages/components/src/focal-point-picker/index.native.js).           *)
(*                                                                         *)
(* JavaScript numbers are IEEE 754 doubles: a finite number is            *)
(* <<"num", s, e, m>>, standing for s * m * 2^e with the sign s = 1 or -1   *)
(* and m an odd natural number of at most 53 binary digits (m = 0 and      *)
(* e = 0 for the two zeros); every operation rounds its exact result to    *)
(* the nearest double, ties to even.  The other values are NaN,            *)
(* Inf(1), Inf(-1) and the JavaScript value `undefined`, Undefined.        *)
(***************************************************************************)
EXTENDS Integers, Sequences, FiniteSets, TLC

\* ---------------------------------------------------------------- bounds
\* The measured heights are 0 and Side = 2^(MaxDim - 1), the measured widths
\* 0, 1 and Wide.  A touch starts on the top edge of the container and is
\* released at the cursor or outside of the container.
MaxDim == 2
\* The width of the widest container measured; not a power of two, so that
\* quotients and products by it are rounded.
Wide == 25
\* Number of gestures (grants) in one run.
MaxGestures == 2
\* Number of slider edits in one run.
MaxEdits == 1
\* Number of heartbeat requests sent in one run of the post-locked modal.
MaxSends == 2
\* Number of heartbeat ticks in one run of the post-locked modal.
MaxTicks == 2
\* Number of beforeunload events in one run of the post-locked modal.
MaxUnloads == 1

\* ------------------------------------------------------ program constants
MIN_POSITION_VALUE == 0
MAX_POSITION_VALUE == 100

Axes == {"x", "y"}

\* ------------------------------------------------ natural numbers, any size
\* A natural number is the sequence of its digits to the base DigitBase,
\* least significant first, without leading zeros; zero is <<>>.
DigitBits == 15
DigitBase == 32768

Abs(i) == IF i < 0 THEN -i ELSE i

RECURSIVE BTrim(_)
BTrim(a) ==
    IF a = <<>> THEN a
    ELSE IF a[Len(a)] = 0 THEN BTrim(SubSeq(a, 1, Len(a) - 1))
    ELSE a

RECURSIVE BFromInt(_)
BFromInt(n) ==
    IF n = 0 THEN <<>> ELSE <<n % DigitBase>> \o BFromInt(n \div DigitBase)

RECURSIVE BZeros(_)
BZeros(n) == IF n = 0 THEN <<>> ELSE <<0>> \o BZeros(n - 1)

BDigit(a, i) == IF i <= Len(a) THEN a[i] ELSE 0

\* The digits from position i on of a + b + c.
RECURSIVE BAddFrom(_, _, _, _)
BAddFrom(a, b, i, c) ==
    IF i > Len(a) /\ i > Len(b) THEN (IF c = 0 THEN <<>> ELSE <<c>>)
    ELSE LET t == BDigit(a, i) + BDigit(b, i) + c
         IN  <<t % DigitBase>> \o BAddFrom(a, b, i + 1, t \div DigitBase)

BAdd(a, b) == BAddFrom(a, b, 1, 0)

\* a - b for a >= b.
RECURSIVE BSubFrom(_, _, _, _)
BSubFrom(a, b, i, c) ==
    IF i > Len(a) THEN <<>>
    ELSE LET t == a[i] - BDigit(b, i) - c
         IN  <<IF t < 0 THEN t + DigitBase ELSE t>>
                 \o BSubFrom(a, b, i + 1, IF t < 0 THEN 1 ELSE 0)

BSub(a, b) == BTrim(BSubFrom(a, b, 1, 0))

RECURSIVE BCmpAt(_, _, _)
BCmpAt(a, b, i) ==
    IF i = 0 THEN 0
    ELSE IF a[i] # b[i] THEN (IF a[i] < b[i] THEN -1 ELSE 1)
    ELSE BCmpAt(a, b, i - 1)

\* -1, 0 or 1 as a is less than, equal to or greater than b.
BCmp(a, b) ==
    IF Len(a) # Len(b) THEN (IF Len(a) < Len(b) THEN -1 ELSE 1)
    ELSE BCmpAt(a, b, Len(a))

\* a * d + c for a digit d, from position i on.
RECURSIVE BMulDigitFrom(_, _, _, _)
BMulDigitFrom(a, d, i, c) ==
    IF i > Len(a) THEN (IF c = 0 THEN <<>> ELSE <<c>>)
    ELSE LET t == a[i] * d + c
         IN  <<t % DigitBase>> \o BMulDigitFrom(a, d, i + 1, t \div DigitBase)

BMulDigit(a, d) == BTrim(BMulDigitFrom(a, d, 1, 0))

RECURSIVE BMulFrom(_, _, _)
BMulFrom(a, b, i) ==
    IF i > Len(b) THEN <<>>
    ELSE BAdd(BMulDigit(a, b[i]), <<0>> \o BMulFrom(a, b, i + 1))

BMul(a, b) == BTrim(BMulFrom(a, b, 1))

\* a * 2^k
BShl(a, k) ==
    IF a = <<>> THEN a
    ELSE BZeros(k \div DigitBits) \o BMulDigit(a, 2 ^ (k % DigitBits))

RECURSIVE BShrFrom(_, _, _)
BShrFrom(a, i, r) ==
    IF i > Len(a) THEN <<>>
    ELSE <<(a[i] \div 2 ^ r) + (BDigit(a, i + 1) % 2 ^ r) * 2 ^ (DigitBits - r)>>
             \o BShrFrom(a, i + 1, r)

\* a \div 2^k
BShr(a, k) == BTrim(BShrFrom(a, k \div DigitBits + 1, k % DigitBits))

RECURSIVE IntBitLen(_)
IntBitLen(d) == IF d = 0 THEN 0 ELSE 1 + IntBitLen(d \div 2)

\* The number of binary digits of a.
BBitLen(a) ==
    IF a = <<>> THEN 0
    ELSE DigitBits * (Len(a) - 1) + IntBitLen(a[Len(a)])

\* Binary digit i of a, the least significant being digit 1.
BBit(a, i) ==
    (BDigit(a, (i - 1) \div DigitBits + 1) \div 2 ^ ((i - 1) % DigitBits)) % 2

BIsOdd(a) == a # <<>> /\ a[1] % 2 = 1

RECURSIVE IntTrailingZeros(_)
IntTrailingZeros(d) == IF d % 2 = 1 THEN 0 ELSE 1 + IntTrailingZeros(d \div 2)

\* The number of trailing zero binary digits of a # 0.
RECURSIVE BTrailingZeros(_)
BTrailingZeros(a) ==
    IF a[1] = 0 THEN DigitBits + BTrailingZeros(Tail(a))
    ELSE IntTrailingZeros(a[1])

\* One step of the long division of r by b, r < 2 * b: the next binary digit
\* of the quotient is appended to q and the remainder doubled.
BDivStep(qr, b) ==
    LET ge == BCmp(qr[2], b) >= 0
        r == IF ge THEN BSub(qr[2], b) ELSE qr[2]
    IN  <<BAddFrom(qr[1], qr[1], 1, IF ge THEN 1 ELSE 0), BAddFrom(r, r, 1, 0)>>

BDivStep4(qr, b) == BDivStep(BDivStep(BDivStep(BDivStep(qr, b), b), b), b)

\* 4 * t steps of the long division; once nothing remains the other digits
\* of the quotient are zeros.
RECURSIVE BDivSteps(_, _, _)
BDivSteps(qr, b, t) ==
    IF t = 0 THEN qr
    ELSE IF qr[2] = <<>> THEN <<BShl(qr[1], 4 * t), <<>>>>
    ELSE BDivSteps(BDivStep4(qr, b), b, t - 1)

\* <<quotient, remainder>> of a by a digit d # 0, from digit i of a down,
\* r being what remains of the digits above.
RECURSIVE BDivDigitFrom(_, _, _, _)
BDivDigitFrom(a, d, i, r) ==
    IF i = 0 THEN <<<<>>, r>>
    ELSE LET t == r * DigitBase + a[i]
             rest == BDivDigitFrom(a, d, i - 1, t % d)
         IN  <<Append(rest[1], t \div d), rest[2]>>

BDivDigit(a, d) ==
    LET qr == BDivDigitFrom(a, d, Len(a), 0)
    IN  <<BTrim(qr[1]), qr[2]>>

\* ------------------------------------------------------ JavaScript numbers
\* IEEE 754 binary64: 53 significant binary digits, the least significant
\* digit no smaller than 2^-1074, the leading one no larger than 2^1023.
Precision == 53
MinExponent == -1074
MaxExponent == 1023
\* Binary digits of a quotient developed before rounding, a multiple of 4.
QuotientDigits == 60

NaN == <<"nan", 0, 0, <<>>>>
Undefined == <<"undefined", 0, 0, <<>>>>
Inf(s) == <<"inf", s, 0, <<>>>>
Zero(s) == <<"num", s, 0, <<>>>>

IsNum(v) == v[1] = "num"
IsInf(v) == v[1] = "inf"
IsZero(v) == IsNum(v) /\ v[4] = <<>>
IsFinite(v) == IsNum(v)
SignOf(v) == v[2]

\* The double s * m * 2^e for m # 0 of at most Precision binary digits, in
\* its one representation: m odd.
Canon(s, m, e) ==
    LET tz == BTrailingZeros(m)
    IN  IF BBitLen(m) - 1 + e > MaxExponent THEN Inf(s)
        ELSE <<"num", s, e + tz, BShr(m, tz)>>

\* The double nearest to s * n * 2^x for n # 0, ties to even.
Round(s, n, x) ==
    LET len == BBitLen(n)
        lead == len - 1 + x
        lsb == IF lead - (Precision - 1) < MinExponent THEN MinExponent
               ELSE lead - (Precision - 1)
        shift == lsb - x
        q == BShr(n, shift)
        rem == BSub(n, BShl(q, shift))
        c == BCmp(rem, BShl(<<1>>, shift - 1))
        m == IF c > 0 \/ (c = 0 /\ BIsOdd(q)) THEN BAdd(q, <<1>>) ELSE q
    IN  IF shift <= 0 THEN Canon(s, n, x)
        ELSE IF shift > len THEN Zero(s)
        ELSE IF m = <<>> THEN Zero(s)
        ELSE Canon(s, m, lsb)

\* The double i * 2^x for an integer i # 0 and x near 0: nothing is rounded.
FromInt(i, x) ==
    LET tz == IntTrailingZeros(Abs(i))
    IN  <<"num", IF i < 0 THEN -1 ELSE 1, x + tz, BFromInt(Abs(i) \div 2 ^ tz)>>

\* The number i, an integer.
Num(i) == IF i = 0 THEN Zero(1) ELSE FromInt(i, 0)

\* A finite number of one digit and an exponent near 0: sums and products
\* of two of them are integers of the model, times a power of 2.
SmallExponent == 7
IsSmall(v) ==
    Len(v[4]) <= 1 /\ v[3] >= -SmallExponent /\ v[3] <= SmallExponent
\* The integer v / 2^x for a small v and x no larger than its exponent.
SmallInt(v, x) ==
    IF v[4] = <<>> THEN 0 ELSE v[2] * v[4][1] * 2 ^ (v[3] - x)

\* ToNumber: undefined converts to NaN.
ToNumber(v) == IF v = Undefined THEN NaN ELSE v

\* a / b.  A divisor of one digit is divided into a * 2^(5 * DigitBits);
\* otherwise the two are brought to the same number of binary digits and
\* QuotientDigits digits of the quotient are developed.  Whatever remains
\* makes one more binary digit, then the quotient is rounded.
JsDiv(a0, b0) ==
    LET a == ToNumber(a0)
        b == ToNumber(b0)
        s == SignOf(a) * SignOf(b)
        la == BBitLen(a[4])
        lb == BBitLen(b[4])
        ma == BShl(a[4], IF la < lb THEN lb - la ELSE 0)
        mb == BShl(b[4], IF lb < la THEN la - lb ELSE 0)
        long == BDivSteps(<<<<>>, ma>>, mb, QuotientDigits \div 4)
        short == BDivDigit(BZeros(5) \o a[4], b[4][1])
        qr == IF Len(b[4]) = 1 THEN <<short[1], BFromInt(short[2])>> ELSE long
        x == IF Len(b[4]) = 1 THEN a[3] - b[3] - 5 * DigitBits - 1
             ELSE (a[3] + la) - (b[3] + lb) - QuotientDigits
        n == BAddFrom(qr[1], qr[1], 1, IF qr[2] = <<>> THEN 0 ELSE 1)
    IN  IF a = NaN \/ b = NaN THEN NaN
        ELSE IF IsInf(a) THEN (IF IsInf(b) THEN NaN ELSE Inf(s))
        ELSE IF IsInf(b) THEN Zero(s)
        ELSE IF IsZero(b) THEN (IF IsZero(a) THEN NaN ELSE Inf(s))
        ELSE IF IsZero(a) THEN Zero(s)
        ELSE IF IsSmall(a) /\ IsSmall(b) /\ a[4][1] % b[4][1] = 0
             THEN <<"num", s, a[3] - b[3], <<a[4][1] \div b[4][1]>>>>
        ELSE Round(s, n, x)

\* a * b
JsMul(a0, b0) ==
    LET a == ToNumber(a0)
        b == ToNumber(b0)
        s == SignOf(a) * SignOf(b)
    IN  IF a = NaN \/ b = NaN THEN NaN
        ELSE IF IsInf(a) \/ IsInf(b)
             THEN (IF IsZero(a) \/ IsZero(b) THEN NaN ELSE Inf(s))
        ELSE IF IsZero(a) \/ IsZero(b) THEN Zero(s)
        ELSE IF IsSmall(a) /\ IsSmall(b)
             THEN <<"num", s, a[3] + b[3], BFromInt(a[4][1] * b[4][1])>>
        ELSE Round(s, BMul(a[4], b[4]), a[3] + b[3])

\* The exponent of the leading binary digit of a finite v # 0.
Lead(v) == v[3] + BBitLen(v[4]) - 1

\* a + b; an operand below a quarter of the other's last digit is absorbed.
JsAdd(a0, b0) ==
    LET a == ToNumber(a0)
        b == ToNumber(b0)
        x == IF a[3] < b[3] THEN a[3] ELSE b[3]
        ma == BShl(a[4], a[3] - x)
        mb == BShl(b[4], b[3] - x)
        c == BCmp(ma, mb)
        small == SmallInt(a, x) + SmallInt(b, x)
    IN  IF a = NaN \/ b = NaN THEN NaN
        ELSE IF IsInf(a) THEN (IF IsInf(b) /\ b # a THEN NaN ELSE a)
        ELSE IF IsInf(b) THEN b
        ELSE IF IsZero(a) /\ IsZero(b)
             THEN Zero(IF SignOf(a) = -1 /\ SignOf(b) = -1 THEN -1 ELSE 1)
        ELSE IF IsZero(a) THEN b
        ELSE IF IsZero(b) THEN a
        ELSE IF IsSmall(a) /\ IsSmall(b)
             THEN (IF small = 0 THEN Zero(1) ELSE FromInt(small, x))
        ELSE IF Lead(a) - Lead(b) > Precision + 2 THEN a
        ELSE IF Lead(b) - Lead(a) > Precision + 2 THEN b
        ELSE IF SignOf(a) = SignOf(b) THEN Round(SignOf(a), BAdd(ma, mb), x)
        ELSE IF c = 0 THEN Zero(1)
        ELSE IF c > 0 THEN Round(SignOf(a), BSub(ma, mb), x)
        ELSE Round(SignOf(b), BSub(mb, ma), x)

\* a < b; false when either is NaN.
JsLt(a0, b0) ==
    LET a == ToNumber(a0)
        b == ToNumber(b0)
        sa == IF IsZero(a) THEN 0 ELSE SignOf(a)
        sb == IF IsZero(b) THEN 0 ELSE SignOf(b)
        x == IF a[3] < b[3] THEN a[3] ELSE b[3]
        c == BCmp(BShl(a[4], a[3] - x), BShl(b[4], b[3] - x))
    IN  IF a = NaN \/ b = NaN THEN FALSE
        ELSE IF sa # sb THEN sa < sb
        ELSE IF sa = 0 THEN FALSE
        ELSE IF IsInf(a) \/ IsInf(b)
             THEN (IF sa = 1 THEN ~IsInf(a) /\ IsInf(b) ELSE IsInf(a) /\ ~IsInf(b))
        ELSE IF IsSmall(a) /\ IsSmall(b) THEN SmallInt(a, x) < SmallInt(b, x)
        ELSE IF Lead(a) # Lead(b)
             THEN (IF sa = 1 THEN Lead(a) < Lead(b) ELSE Lead(b) < Lead(a))
        ELSE IF sa = 1 THEN c < 0 ELSE c > 0

\* a === b
StrictEq(a, b) ==
    IF a = NaN \/ b = NaN THEN FALSE
    ELSE IF IsZero(a) /\ IsZero(b) THEN TRUE
    ELSE a = b

\* JavaScript truthiness of a number (or undefined): 0, NaN and undefined
\* are falsy, everything else is truthy.
Truthy(v) == v # Undefined /\ v # NaN /\ ~IsZero(v)

\* The number n / d for integers n and d.
Quotient(n, d) == JsDiv(Num(n), Num(d))

\* a <= b for finite a and b.
Leq(a, b) == ~JsLt(b, a)

InUnit(v) == IsFinite(v) /\ Leq(Num(0), v) /\ Leq(v, Num(1))


\* ------------------------------------------------------------------ state
VARIABLES
    focalPoint,          \* props.focalPoint, owned by the consumer of onChange
    containerSize,       \* useState( null )
    sliderKey,           \* useState( 0 )
    tooltipVisible,      \* useState( true )
    displayPlaceholder,  \* useState( true )
    videoNaturalSize,    \* useState( null )
    pan,                 \* the Animated.ValueXY: raw value and offset per axis
    scrollEnabled,       \* the scroll host driven by shouldEnableBottomSheetScroll
    gesture,             \* the gesture recogniser: "idle" or "active"
    origin,              \* the touch origin of the active gesture
    last,                \* the handler that ran last, with its arguments
    effects,             \* the calls the last handler made, in order
    emitted,             \* the partial update the last handler passed on, if any
    calls                \* how often each handler / callback has been called

\* The post-locked modal (packages/editor/src/components/post-locked-modal).
VARIABLES
    postLock,            \* the store's lock state: isLocked, isTakeover, user
                         \* avatar, activePostLock (the component's props)
    inFlight,            \* heartbeat requests sent and not yet answered
    sentData,            \* the heartbeat data after the last sendPostLock
    unlockRequests,      \* the requests releasePostLock has posted
    lockLast,            \* the lock handler that ran last, with its data
    lockEffects,         \* the calls the last lock handler made, in order
    lockCalls            \* how often each lock handler has run

pickerVars == <<focalPoint, containerSize, sliderKey, tooltipVisible,
                displayPlaceholder, videoNaturalSize, pan,
                scrollEnabled, gesture, origin, last, effects,
                emitted, calls>>

lockVars == <<postLock, inFlight, sentData, unlockRequests, lockLast,
              lockEffects, lockCalls>>

vars == <<pickerVars, lockVars>>

\* containerSize = null: containerSize?.width and ?.height read undefined.
Null == [width |-> Undefined, height |-> Undefined]

\* The inputs the handlers are tried on.
\* The height measured, a power of two.
Side == 2 ^ (MaxDim - 1)
\* The measurements reported: a zero width, a zero height, the narrow and
\* the wide container.
Measurements == {<<0, Side>>, <<Wide, 0>>, <<1, Side>>, <<Wide, Side>>}
\* Where a gesture starts: the top left corner and a point of the top edge.
GrantPoints == {<<0, 0>>, <<6, 0>>}
\* Where a gesture is released: left of the container on its top edge, on
\* its left edge below it, and inside it.
ReleaseGrid == {<<-1, 0>>, <<0, Side + 1>>, <<1, 1>>}
\* The cumulative dx, dy of a move.
Drags == {<<1, -1>>, <<-1, 1>>}
\* The focal point the consumer starts with has x = y, one of these.
Fractions == {Num(0), Quotient(1, 2)}
SliderValues ==
    {MIN_POSITION_VALUE, (MIN_POSITION_VALUE + MAX_POSITION_VALUE) \div 2}

\* The natural size of the video, width and height.
VideoSizes == {<<Side, 1>>}

Zero2 == [x |-> Num(0), y |-> Num(0)]

\* ------------------------------------------------ Animated.ValueXY (pan)
\* pan.setValue( v ): sets the raw value, the offset stays.
PanSetValue(p, v) == [p EXCEPT !.value = v]
\* pan.setOffset( o ): sets the offset applied on top of the raw value.
PanSetOffset(p, o) == [p EXCEPT !.offset = o]
\* pan.flattenOffset(): merges the offset into the raw value, offset := 0.
PanFlattenOffset(p) ==
    [value  |-> [a \in Axes |-> JsAdd(p.value[a], p.offset[a])],
     offset |-> Zero2]
\* The value an Animated node presents: raw value plus offset.
PanGetValue(p) == [a \in Axes |-> JsAdd(p.value[a], p.offset[a])]

\* ------------------------------------------------------- component logic
\* Render, lines 42-48: place the cursor at focalPoint * containerSize.
RenderCursor(p, cs, fp) ==
    IF cs # Null
    THEN PanSetValue(p, [x |-> JsMul(fp.x, cs.width),
                         y |-> JsMul(fp.y, cs.height)])
    ELSE p

\* Variant: an axis is present whenever its value is not undefined.
SetPositionUpdateDefined(x, y) ==
    [a \in {b \in Axes : (IF b = "x" THEN x ELSE y) # Undefined} |->
        IF a = "x" THEN x ELSE y]

\* setPosition( { x, y } ): the partial update its updater spreads over
\* prevState; an axis is present only when its value is truthy.
SetPositionUpdate(x, y) ==
    [a \in {b \in Axes : Truthy(IF b = "x" THEN x ELSE y)} |->
        IF a = "x" THEN x ELSE y]

\* setPosition( { x, y } ) calls onChange once, whatever x and y are.
SetPositionCalls(x, y) == 1

\* Variant: the updater returns the update alone, without ...prevState.
UpdaterNoSpread(prevState, update) ==
    [a \in Axes |-> IF a \in DOMAIN update THEN update[a] ELSE Undefined]

\* The updater passed to onChange: { ...prevState, ...update }.
Updater(prevState, update) ==
    [a \in Axes |-> IF a \in DOMAIN update THEN update[a] ELSE prevState[a]]

\* Variant: the guard without the two zero tests.
ShouldSetContainerSizeNoZeroTest(cs, width, height) ==
    ~StrictEq(cs.width, width) \/ ~StrictEq(cs.height, height)

\* onLayout's guard.
ShouldSetContainerSize(cs, width, height) ==
    /\ ~StrictEq(width, Num(0))
    /\ ~StrictEq(height, Num(0))
    /\ (~StrictEq(cs.width, width) \/ ~StrictEq(cs.height, height))

\* Variant: each coordinate divided by the other dimension.
ReleasePositionSwapped(x, y, cs) ==
    [x |-> JsDiv(x, cs.height), y |-> JsDiv(y, cs.width)]

\* The argument onPanResponderRelease passes to setPosition.
ReleasePosition(x, y, cs) ==
    [x |-> JsDiv(x, cs.width), y |-> JsDiv(y, cs.height)]

\* The value a RangeControl's onChange passes to setPosition: v / 100.
SliderPosition(percentValue) == JsDiv(Num(percentValue), Num(100))

\* Variant: the key is set to 1 instead of being incremented.
NextSliderKeyOnce(prevState) == 1

\* setSliderKey( ( prevState ) => prevState + 1 )
NextSliderKey(prevState) == prevState + 1

\* Variant: the grant handler leaves scrolling enabled.
GrantScrollArgEnabled == TRUE

\* Variant: each move adds its delta to the raw value.
MoveValueAccumulating(p, dx, dy) ==
    PanSetValue(p, [x |-> JsAdd(p.value.x, dx), y |-> JsAdd(p.value.y, dy)])

\* The raw value Animated.event( [ null, { dx: pan.x, dy: pan.y } ] ) leaves:
\* each move sets pan.x, pan.y to the gesture's cumulative dx, dy.
MoveValue(p, dx, dy) == PanSetValue(p, [x |-> dx, y |-> dy])

\* Variant: the release handler leaves the tooltip visible.
ReleaseTooltipStaysVisible == TRUE

\* setTooltipVisible( false ) in onPanResponderRelease.
ReleaseTooltipVisible == FALSE

\* interpolate( { inputRange: [ 0, max ], outputRange: [ 0, max ],
\* extrapolate: 'clamp' } ) for a finite max >= 0: the input is clamped to
\* the input range; an empty output range gives its one value; otherwise the
\* result is ( clamped - 0 ) / ( max - 0 ) * ( max - 0 ) + 0.
InterpolateClamp(v, max) ==
    LET low == IF JsLt(v, Num(0)) THEN Num(0) ELSE v
        clamped == IF JsLt(max, low) THEN max ELSE low
    IN  IF StrictEq(max, Num(0)) THEN Num(0)
        ELSE JsAdd(JsMul(JsDiv(clamped, max), max), Num(0))

\* containerSize?.width || 0
OrZero(v) == IF Truthy(v) THEN v ELSE Num(0)

\* focalPointGroupStyles: translateX, translateY of the cursor.
Translate(p, cs) ==
    [x |-> InterpolateClamp(PanGetValue(p).x, OrZero(cs.width)),
     y |-> InterpolateClamp(PanGetValue(p).y, OrZero(cs.height))]

\* The argument of shouldEnableBottomSheetScroll in each handler.
GrantScrollArg == FALSE
ReleaseScrollArg == TRUE

GrantEffects ==
    <<"shouldEnableBottomSheetScroll", "pan.setValue", "pan.setOffset">>
ReleaseEffects ==
    <<"shouldEnableBottomSheetScroll", "setTooltipVisible",
      "pan.flattenOffset", "onChange", "setSliderKey">>

\* A handler that does not call onChange emits nothing.
NoUpdate == <<>>
NoArgs == [op |-> "init", x |-> Num(0), y |-> Num(0), axis |-> "x"]
Bump(f, k, n) == [f EXCEPT ![k] = @ + n]

\* ------------------------------------------------------------------- Init
PickerInit ==
    /\ \E f \in Fractions : focalPoint = [x |-> f, y |-> f]
    /\ containerSize = Null
    /\ sliderKey = 0
    /\ tooltipVisible = TRUE
    /\ displayPlaceholder = TRUE
    /\ videoNaturalSize = Null
    /\ pan = [value |-> Zero2, offset |-> Zero2]
    /\ scrollEnabled = TRUE
    /\ gesture = "idle"
    /\ origin = Zero2
    /\ last = NoArgs
    /\ effects = <<>>
    /\ emitted = NoUpdate
    /\ calls = [grant |-> 0, release |-> 0, edit |-> 0, onChange |-> 0]

\* ------------------------------------------------------ post-locked modal
\* A property that is absent (undefined).
None == "<undefined>"
\* props.postId
PostId == 7
LockStrings == {"L1", "L2"}
Avatars == {None, "avatar.png"}
\* A string is truthy when it is present and not empty.
StringTruthy(v) == v # None /\ v # ""

NoData == [has |-> FALSE, lock_error |-> None, new_lock |-> None]
NoRefresh == [has |-> FALSE, lock |-> None, post_id |-> 0]

\* The wp-refresh-post-lock entries of a heartbeat answer: lock_error is the
\* avatar_src of the lock_error object, when there is one.
HasError == "<no avatar_src>"
TickEntries ==
    [has : {TRUE}, lock_error : {None, HasError, "avatar.png"},
     new_lock : {None} \cup LockStrings]

\* updatePostLock( lock ): the store's lock state becomes the given lock;
\* the properties it does not name read as falsy.
UpdatePostLock(lock) ==
    [isLocked |-> lock.isLocked,
     isTakeover |-> IF "isTakeover" \in DOMAIN lock THEN lock.isTakeover
                    ELSE FALSE,
     avatar |-> IF "avatar" \in DOMAIN lock THEN lock.avatar ELSE None,
     activePostLock |-> IF "activePostLock" \in DOMAIN lock
                        THEN lock.activePostLock ELSE None]

\* Variant: the refresh entry is added whether or not the post is locked.
SendPostLockAlways(lock, data) ==
    [has |-> TRUE, lock |-> lock.activePostLock, post_id |-> PostId]

\* Variant: the test of isLocked is inverted.
SendPostLockWhenLocked(lock, data) ==
    IF ~lock.isLocked THEN data
    ELSE [has |-> TRUE, lock |-> lock.activePostLock, post_id |-> PostId]

\* sendPostLock( event, data ): the wp-refresh-post-lock entry of data
\* after the handler.
SendPostLock(lock, data) ==
    IF lock.isLocked THEN data
    ELSE [has |-> TRUE, lock |-> lock.activePostLock, post_id |-> PostId]

\* Variant: new_lock is tested before lock_error.
ReceiveBranchNewLockFirst(data) ==
    IF ~data.has THEN "return"
    ELSE IF StringTruthy(data.new_lock) THEN "new_lock"
    ELSE IF data.lock_error # None THEN "lock_error"
    ELSE "nothing"

\* receivePostLock( event, data ): the branch taken.
ReceiveBranch(data) ==
    IF ~data.has THEN "return"
    ELSE IF data.lock_error # None THEN "lock_error"
    ELSE IF StringTruthy(data.new_lock) THEN "new_lock"
    ELSE "nothing"

\* The lock each branch passes to updatePostLock.
ReceiveLock(data) ==
    IF ReceiveBranch(data) = "lock_error"
    THEN [isLocked |-> TRUE, isTakeover |-> TRUE,
          avatar |-> IF data.lock_error = HasError THEN None
                     ELSE data.lock_error]
    ELSE [isLocked |-> FALSE, activePostLock |-> data.new_lock]

ReceiveEffects(data) ==
    IF ReceiveBranch(data) = "lock_error" THEN <<"autosave", "updatePostLock">>
    ELSE IF ReceiveBranch(data) = "new_lock" THEN <<"updatePostLock">>
    ELSE <<>>

\* Variant: the unlock request is posted even when the post is locked.
ReleaseRequestsIgnoringLock(lock) ==
    IF ~StringTruthy(lock.activePostLock) THEN <<>>
    ELSE <<[action |-> "wp-remove-post-lock", post_ID |-> PostId,
            active_post_lock |-> lock.activePostLock]>>

\* releasePostLock(): the requests it posts.
ReleaseRequests(lock) ==
    IF lock.isLocked \/ ~StringTruthy(lock.activePostLock) THEN <<>>
    ELSE <<[action |-> "wp-remove-post-lock", post_ID |-> PostId,
            active_post_lock |-> lock.activePostLock]>>

\* render(): the modal is shown only when the post is locked.
ModalShown(lock) == lock.isLocked

LockAtRest ==
    /\ postLock = [isLocked |-> FALSE, isTakeover |-> FALSE, avatar |-> None,
                   activePostLock |-> "L1"]
    /\ inFlight = [refresh |-> 0, plain |-> 0]
    /\ sentData = NoRefresh
    /\ unlockRequests = <<>>
    /\ lockLast = [op |-> "init", data |-> NoData]
    /\ lockEffects = <<>>
    /\ lockCalls = [send |-> 0, tick |-> 0, stray |-> 0, unload |-> 0,
                    autosave |-> 0]

\* The editor opens with the post free (with or without a lock of its own)
\* or already locked by another user.
LockInit ==
    /\ postLock \in [isLocked : BOOLEAN, isTakeover : {FALSE}, avatar : Avatars,
                     activePostLock : {None, "", "L1"}]
    /\ inFlight = [refresh |-> 0, plain |-> 0]
    /\ sentData = NoRefresh
    /\ unlockRequests = <<>>
    /\ lockLast = [op |-> "init", data |-> NoData]
    /\ lockEffects = <<>>
    /\ lockCalls = [send |-> 0, tick |-> 0, stray |-> 0, unload |-> 0,
                    autosave |-> 0]

\* heartbeat-send: sendPostLock fills the outgoing data, lines 54-64, and the
\* request leaves.
HeartbeatSend ==
    LET data == SendPostLock(postLock, NoRefresh)
    IN  /\ lockCalls.send < MaxSends
        /\ sentData' = data
        /\ inFlight' = IF data.has THEN Bump(inFlight, "refresh", 1)
                       ELSE Bump(inFlight, "plain", 1)
        /\ lockLast' = [op |-> "send", data |-> NoData]
        /\ lockEffects' = <<>>
        /\ lockCalls' = Bump(lockCalls, "send", 1)
        /\ UNCHANGED <<postLock, unlockRequests>>

\* The request in flight a tick with this data answers: one that carried a
\* refresh entry for data with an entry, one that carried none otherwise;
\* "none" when no such request is in flight.
Answered(data) ==
    IF data.has /\ inFlight.refresh > 0 THEN "refresh"
    ELSE IF ~data.has /\ inFlight.plain > 0 THEN "plain"
    ELSE "none"

\* heartbeat-tick: receivePostLock, lines 72-95.  The handler runs on every
\* tick, whether or not the tick answers a request of this client;
\* lockCalls.stray counts the ticks that answer none.
HeartbeatTick(data) ==
    LET branch == ReceiveBranch(data)
        request == Answered(data)
    IN  /\ lockCalls.tick < MaxTicks
        /\ inFlight' = IF request = "none" THEN inFlight
                       ELSE Bump(inFlight, request, -1)
        /\ postLock' = IF branch \in {"lock_error", "new_lock"}
                       THEN UpdatePostLock(ReceiveLock(data)) ELSE postLock
        /\ lockLast' = [op |-> "tick", data |-> data]
        /\ lockEffects' = ReceiveEffects(data)
        /\ lockCalls' =
              LET ticked == Bump(Bump(lockCalls, "tick", 1), "stray",
                                 IF request = "none" THEN 1 ELSE 0)
              IN  IF "autosave" \in {ReceiveEffects(data)[i] :
                                       i \in DOMAIN ReceiveEffects(data)}
                  THEN Bump(ticked, "autosave", 1) ELSE ticked
        /\ UNCHANGED <<sentData, unlockRequests>>

\* beforeunload: releasePostLock, lines 100-118.
BeforeUnload ==
    /\ lockCalls.unload < MaxUnloads
    /\ unlockRequests' = unlockRequests \o ReleaseRequests(postLock)
    /\ lockLast' = [op |-> "unload", data |-> NoData]
    /\ lockEffects' = IF ReleaseRequests(postLock) = <<>> THEN <<>>
                      ELSE <<"jQuery.post">>
    /\ lockCalls' = Bump(lockCalls, "unload", 1)
    /\ UNCHANGED <<postLock, inFlight, sentData>>

Send == HeartbeatSend /\ UNCHANGED pickerVars
Tick ==
    \E data \in TickEntries \cup {NoData} :
        HeartbeatTick(data) /\ UNCHANGED pickerVars
Unload == BeforeUnload /\ UNCHANGED pickerVars

LockNext ==
    \/ Send
    \/ Tick
    \/ Unload

\* The modal on its own, the picker untouched.
LockSpecInit ==
    /\ focalPoint = [x |-> Quotient(1, 2), y |-> Quotient(1, 2)]
    /\ PickerInit
    /\ LockInit

LockSpec == LockSpecInit /\ [][LockNext]_vars

\* The picker is checked with the modal at rest.
Init == PickerInit /\ LockAtRest

\* ---------------------------------------------------------------- actions
\* onLayout, lines 127-138, followed by the re-render the state change
\* causes; a measurement that sets nothing calls no setter and renders
\* nothing.
OnLayout(w, h) ==
    LET width == Num(w)
        height == Num(h)
        set == ShouldSetContainerSize(containerSize, width, height)
        cs == IF set THEN [width |-> width, height |-> height]
              ELSE containerSize
    IN  /\ containerSize' = cs
        /\ pan' = IF set THEN RenderCursor(pan, cs, focalPoint) ELSE pan
        /\ last' = [op |-> "layout", x |-> width, y |-> height, axis |-> "x"]
        /\ effects' = IF set THEN <<"setContainerSize">> ELSE <<>>
        /\ emitted' = NoUpdate
        /\ UNCHANGED <<focalPoint, sliderKey, tooltipVisible,
                       displayPlaceholder, videoNaturalSize,
                       scrollEnabled, gesture, origin, calls>>

\* onPanResponderGrant, lines 58-63.
OnPanResponderGrant(px, py) ==
    LET p == [x |-> px, y |-> py]
        p1 == PanSetValue(pan, p)
        p2 == PanSetOffset(p1, p1.value)
    IN  /\ gesture = "idle"
        /\ calls.grant < MaxGestures
        /\ gesture' = "active"
        /\ origin' = p
        /\ scrollEnabled' = GrantScrollArg
        /\ pan' = p2
        /\ last' = [op |-> "grant", x |-> px, y |-> py, axis |-> "x"]
        /\ effects' = GrantEffects
        /\ calls' = Bump(calls, "grant", 1)
        /\ emitted' = NoUpdate
        /\ UNCHANGED <<focalPoint, containerSize, sliderKey, tooltipVisible,
                       displayPlaceholder, videoNaturalSize>>

\* onPanResponderMove, lines 65-68: Animated.event sets pan.x, pan.y to dx, dy.
OnPanResponderMove(dx, dy) ==
    /\ gesture = "active"
    /\ pan' = MoveValue(pan, dx, dy)
    /\ last' = [op |-> "move", x |-> dx, y |-> dy, axis |-> "x"]
    /\ effects' = <<"pan.setValue">>
    /\ emitted' = NoUpdate
    /\ UNCHANGED <<focalPoint, containerSize, sliderKey, tooltipVisible,
                   displayPlaceholder, videoNaturalSize,
                   scrollEnabled, gesture, origin, calls>>

\* onPanResponderRelease, lines 69-82; the consumer applies the updater and
\* the component re-renders (lines 42-48) with the new props and state.
OnPanResponderRelease(px, py) ==
    LET pos == ReleasePosition(px, py, containerSize)
        update == SetPositionUpdate(pos.x, pos.y)
        fp == Updater(focalPoint, update)
    IN  /\ gesture = "active"
        /\ gesture' = "idle"
        /\ origin' = Zero2
        /\ scrollEnabled' = ReleaseScrollArg
        /\ tooltipVisible' = ReleaseTooltipVisible
        /\ emitted' = update
        /\ focalPoint' = fp
        /\ sliderKey' = NextSliderKey(sliderKey)
        /\ pan' = RenderCursor(PanFlattenOffset(pan), containerSize, fp)
        /\ last' = [op |-> "release", x |-> px, y |-> py, axis |-> "x"]
        /\ effects' = ReleaseEffects
        /\ calls' = Bump(Bump(calls, "release", 1), "onChange",
                          SetPositionCalls(pos.x, pos.y))
        /\ UNCHANGED <<containerSize, displayPlaceholder, videoNaturalSize>>

\* RangeControl onChange, lines 195 and 204: setPosition( { [axis]: v / 100 } ).
OnAxisSliderChanged(axis, percentValue) ==
    LET v == SliderPosition(percentValue)
        pos == IF axis = "x" THEN [x |-> v, y |-> Undefined]
               ELSE [x |-> Undefined, y |-> v]
        update == SetPositionUpdate(pos.x, pos.y)
        fp == Updater(focalPoint, update)
    IN  /\ calls.edit < MaxEdits
        /\ emitted' = update
        /\ focalPoint' = fp
        /\ pan' = RenderCursor(pan, containerSize, fp)
        /\ last' = [op |-> "slider", x |-> Num(percentValue), y |-> v,
                    axis |-> axis]
        /\ effects' = <<"onChange">>
        /\ calls' = Bump(Bump(calls, "edit", 1), "onChange",
                          SetPositionCalls(pos.x, pos.y))
        /\ UNCHANGED <<containerSize, sliderKey, tooltipVisible,
                       displayPlaceholder, videoNaturalSize,
                       scrollEnabled, gesture, origin>>

\* The gesture recogniser ends the gesture without a release (another view
\* takes the responder): the component registers no onPanResponderTerminate,
\* so no handler runs.
GestureTerminate ==
    /\ gesture = "active"
    /\ gesture' = "idle"
    /\ origin' = Zero2
    /\ last' = [op |-> "terminate", x |-> Num(0), y |-> Num(0), axis |-> "x"]
    /\ effects' = <<>>
    /\ emitted' = NoUpdate
    /\ UNCHANGED <<focalPoint, containerSize, sliderKey, tooltipVisible,
                   displayPlaceholder, videoNaturalSize, pan,
                   scrollEnabled, calls>>

\* Image onImageDataLoad, lines 146-148: setDisplayPlaceholder( false ) and
\* the re-render (lines 42-48) the state change causes.  When the state is
\* false already React may render the component once more or not at all.
OnImageDataLoad(render) ==
    /\ displayPlaceholder \/ render \in BOOLEAN
    /\ displayPlaceholder' = FALSE
    /\ pan' = IF displayPlaceholder \/ render
              THEN RenderCursor(pan, containerSize, focalPoint) ELSE pan
    /\ last' = [op |-> "imageLoad", x |-> Num(0), y |-> Num(0), axis |-> "x"]
    /\ effects' = <<"setDisplayPlaceholder">>
    /\ emitted' = NoUpdate
    /\ UNCHANGED <<focalPoint, containerSize, sliderKey, tooltipVisible,
                   videoNaturalSize, scrollEnabled, gesture, origin, calls>>

\* Video onLoad, lines 156-160: setVideoNaturalSize with a new object and
\* setDisplayPlaceholder( false ), then the re-render (lines 42-48).
OnVideoLoad(width, height) ==
    /\ videoNaturalSize' = [width |-> width, height |-> height]
    /\ displayPlaceholder' = FALSE
    /\ pan' = RenderCursor(pan, containerSize, focalPoint)
    /\ last' = [op |-> "videoLoad", x |-> width, y |-> height, axis |-> "x"]
    /\ effects' = <<"setVideoNaturalSize", "setDisplayPlaceholder">>
    /\ emitted' = NoUpdate
    /\ UNCHANGED <<focalPoint, containerSize, sliderKey, tooltipVisible,
                   scrollEnabled, gesture, origin, calls>>

\* The pointer positions a release is tried at: the points of ReleaseGrid
\* and the pixel position of the current focal point.
ReleasePoints ==
    {<<Num(p[1]), Num(p[2])>> : p \in ReleaseGrid} \cup
    (IF containerSize # Null
     THEN {p \in {<<JsMul(focalPoint.x, containerSize.width),
                    JsMul(focalPoint.y, containerSize.height)>>} :
              IsFinite(p[1]) /\ IsFinite(p[2])}
     ELSE {})

Layout ==
    \E m \in Measurements : OnLayout(m[1], m[2]) /\ UNCHANGED lockVars
Grant ==
    \E p \in GrantPoints :
        OnPanResponderGrant(Num(p[1]), Num(p[2])) /\ UNCHANGED lockVars
Move ==
    \E d \in Drags :
        OnPanResponderMove(Num(d[1]), Num(d[2])) /\ UNCHANGED lockVars
Release ==
    \E p \in ReleasePoints :
        OnPanResponderRelease(p[1], p[2]) /\ UNCHANGED lockVars
Slider ==
    \E axis \in Axes, v \in SliderValues :
        OnAxisSliderChanged(axis, v) /\ UNCHANGED lockVars
Terminate == GestureTerminate /\ UNCHANGED lockVars
ImageLoad ==
    \E render \in BOOLEAN : OnImageDataLoad(render) /\ UNCHANGED lockVars
VideoLoad ==
    \E size \in VideoSizes :
        OnVideoLoad(Num(size[1]), Num(size[2])) /\ UNCHANGED lockVars

Next ==
    \/ Layout
    \/ Grant
    \/ Move
    \/ Release
    \/ Slider
    \/ Terminate
    \/ ImageLoad
    \/ VideoLoad

Spec == Init /\ [][Next]_vars


\* ----------------------------------------------------------------- claims
Size == [x |-> containerSize.width, y |-> containerSize.height]
LastPoint == [x |-> last.x, y |-> last.y]
Measured == containerSize # Null
\* The pointer of the last release lies within the container on axis a.
InsideOn(a) == /\ IsFinite(LastPoint[a])
               /\ Leq(Num(0), LastPoint[a])
               /\ Leq(LastPoint[a], Size[a])
Occurrences(seq, e) == Cardinality({i \in DOMAIN seq : seq[i] = e})

\* C1: a slider edit (axis, percentValue), percentValue in 0..100 including
\* 0, emits an update holding exactly that axis with value percentValue / 100,
\* and the merged focal point has that value on that axis.
C1_SliderEmitsAxis ==
    last.op = "slider" =>
        /\ DOMAIN emitted = {last.axis}
        /\ emitted[last.axis] = JsDiv(last.x, Num(100))
        /\ focalPoint[last.axis] = JsDiv(last.x, Num(100))

\* C2: with a measured container (w, h), a release at (px, py) emits both
\* axes, x = px / w and y = py / h, for every pointer position, px = 0 or
\* py = 0 included.
C2_ReleaseEmitsBothAxes ==
    (last.op = "release" /\ Measured) =>
        /\ DOMAIN emitted = Axes
        /\ \A a \in Axes : emitted[a] = JsDiv(LastPoint[a], Size[a])

\* C3: round trip: with a measured container and a focal point in the unit
\* square, the cursor is rendered at focalPoint * containerSize, and a
\* release at exactly that pixel position emits the focal point itself.
C3_RoundTrip ==
    [][(/\ last'.op = "release"
        /\ Measured
        /\ \A a \in Axes : /\ InUnit(focalPoint[a])
                           /\ LastPoint[a]' = JsMul(focalPoint[a], Size[a]))
       => (/\ DOMAIN emitted' = Axes
           /\ \A a \in Axes : emitted'[a] = focalPoint[a])]_vars

\* C4: with containerSize never measured, a release at any pointer position
\* emits an update with neither x nor y, the consumer's focal point is not
\* changed by it, and no NaN or Infinity ever reaches the consumer.
C4_UnmeasuredReleaseEmitsNothing ==
    /\ [](\A a \in Axes : IsFinite(focalPoint[a]))
    /\ [](\A a \in DOMAIN emitted : IsFinite(emitted[a]))
    /\ [][(last'.op = "release" /\ ~Measured)
          => (emitted' = NoUpdate /\ focalPoint' = focalPoint)]_vars

C4_Witness ==
    /\ last.op = "release"
    /\ ~Measured
    /\ LastPoint = [x |-> Num(1), y |-> Num(1)]
    /\ emitted = NoUpdate
    /\ calls.onChange = 1

\* C5 as stated: after any sequence of operations both axes of the merged
\* focal point lie in [0, 1], also after a release outside the container.
C5_AlwaysInUnit == \A a \in Axes : InUnit(focalPoint[a])

\* C5 amended: an axis of the focal point that lies in [0, 1] stays in [0, 1]
\* across every operation except a release, with a measured container, whose
\* pointer lies outside the container on that axis.
C5_InUnitUnlessReleasedOutside ==
    [][\A a \in Axes :
          (/\ focalPoint'[a] # focalPoint[a]
           /\ InUnit(focalPoint[a])
           /\ ~(last'.op = "release" /\ Measured' /\ ~InsideOn(a)'))
          => InUnit(focalPoint'[a])]_vars

C5_Witness ==
    /\ last.op = "release"
    /\ Measured
    /\ \A a \in Axes : InsideOn(a) /\ LastPoint[a] # Num(0)
    /\ DOMAIN emitted = Axes
    /\ \A a \in Axes : InUnit(focalPoint[a]) /\ focalPoint[a] = emitted[a]
    /\ focalPoint.x # focalPoint.y

\* C6: a layout measurement (width, height) replaces containerSize exactly
\* when both are non-zero and the pair differs from the stored one; otherwise
\* nothing is set.  A stored containerSize has two non-zero dimensions.
C6_LayoutGuard ==
    /\ [](Measured => (containerSize.width # Num(0)
                       /\ containerSize.height # Num(0)))
    /\ [][last'.op = "layout" =>
            LET measured == [width |-> last'.x, height |-> last'.y]
                replace == /\ last'.x # Num(0)
                           /\ last'.y # Num(0)
                           /\ measured # containerSize
            IN  /\ containerSize' = IF replace THEN measured ELSE containerSize
                /\ (effects' = <<"setContainerSize">>) <=> replace
                /\ ~replace => pan' = pan]_vars

C6_Witness ==
    /\ last.op = "layout"
    /\ Measured
    /\ containerSize = [width |-> last.x, height |-> last.y]
    /\ effects = <<>>

\* C7: sliderKey starts at 0, grows by exactly 1 on every release (with or
\* without a measured container, with or without an emitted axis), is left
\* alone by every other handler, and equals the number of releases so far.
C7_SliderKeyCountsReleases ==
    /\ [](sliderKey = calls.release)
    /\ [][sliderKey' = IF last'.op = "release" THEN sliderKey + 1
                       ELSE sliderKey]_vars

C7_Witness ==
    /\ last.op = "release"
    /\ emitted = NoUpdate
    /\ sliderKey = 2
    /\ calls.edit = 1

\* C8: onChange is called once per release and once per slider edit and by
\* no other handler, and the updater leaves every axis that is absent from
\* the emitted update at its previous value.
C8_OnChangeFrame ==
    /\ [](calls.onChange = calls.release + calls.edit)
    /\ [][/\ last'.op \notin {"release", "slider"}
             => (calls'.onChange = calls.onChange /\ focalPoint' = focalPoint)
          /\ last'.op \in {"release", "slider"}
             => /\ calls'.onChange = calls.onChange + 1
                /\ \A a \in Axes :
                      focalPoint'[a] = IF a \in DOMAIN emitted'
                                       THEN emitted'[a] ELSE focalPoint[a]]_vars

C8_Witness ==
    /\ last.op = "release"
    /\ DOMAIN emitted = {"y"}
    /\ focalPoint.x # Num(0)
    /\ calls.onChange = 2
    /\ calls.edit = 1

\* C9: the grant handler calls the scroll control with false and the release
\* handler with true, each once and before anything else the handler does;
\* scrolling is disabled while a gesture is active, enabled after a release,
\* and no other handler touches it.
C9_ScrollSuspendedDuringGesture ==
    /\ [](gesture = "active" => ~scrollEnabled)
    /\ [](last.op = "release" => scrollEnabled)
    /\ [](last.op \in {"grant", "release"} =>
            /\ effects[1] = "shouldEnableBottomSheetScroll"
            /\ Occurrences(effects, "shouldEnableBottomSheetScroll") = 1)
    /\ [](last.op \notin {"grant", "release"} =>
            Occurrences(effects, "shouldEnableBottomSheetScroll") = 0)
    /\ [][last'.op \notin {"grant", "release"}
          => scrollEnabled' = scrollEnabled]_vars

C9_Witness ==
    /\ gesture = "active"
    /\ last.op = "move"
    /\ ~scrollEnabled
    /\ calls.release = 1

\* C10: right after a grant at (px, py) the cursor position, raw value plus
\* offset, is (px, py), and the offset is (px, py).
C10_GrantSnapsToTouch ==
    last.op = "grant" =>
        /\ PanGetValue(pan) = LastPoint
        /\ pan.offset = LastPoint


\* v limited to [0, max], for finite v and max.
ClampTo(v, max) ==
    IF Leq(v, Num(0)) THEN Num(0) ELSE IF Leq(v, max) THEN v ELSE max

\* The spacing of the doubles at a finite v # 0: one unit in its last place.
Ulp(v) == <<"num", 1, Lead(v) - (Precision - 1), <<1>>>>
Neg(v) == <<v[1], -v[2], v[3], v[4]>>
\* |a - b| for finite a and b.
Distance(a, b) ==
    LET d == JsAdd(a, Neg(b))
    IN  IF JsLt(d, Num(0)) THEN Neg(d) ELSE d
\* shown is target or one of the two doubles next to it, whatever the size
\* of target.
WithinOneUlp(shown, target) ==
    IF IsZero(target) THEN StrictEq(shown, target)
    ELSE Leq(Distance(shown, target), Ulp(target))
\* A positive power of two: its significand is 1.
IsPowerOfTwo(v) == IsNum(v) /\ v[2] = 1 /\ v[4] = <<1>>

C12_TooltipUntilFirstRelease ==
    /\ [](tooltipVisible <=> calls.release = 0)
    /\ [][~tooltipVisible => ~tooltipVisible']_vars

C12_Witness ==
    /\ ~tooltipVisible
    /\ gesture = "active"
    /\ last.op = "move"
    /\ calls.edit = 1

\* C13: after a release at (px, py) and the re-render that follows, with a
\* measured container the accumulator has zero offset, its value is
\* focalPoint * containerSize and the cursor is drawn at (px, py) clamped to
\* the container; with no measurement the render places nothing.
C13_ReleaseRestsAtPointer ==
    [][last'.op = "release" =>
        IF Measured'
        THEN /\ pan'.offset = Zero2
             /\ \A a \in Axes :
                  /\ pan'.value[a] = JsMul(focalPoint'[a], Size'[a])
                  /\ Translate(pan', containerSize')[a]
                        = ClampTo(LastPoint'[a], Size'[a])
        ELSE pan' = PanFlattenOffset(pan)]_vars

\* The handlers that re-render the component without touching the gesture.
RenderOps == {"layout", "imageLoad", "videoLoad", "slider"}

\* C17: a re-render during an active gesture (the media finishes loading, a
\* layout measurement stores a new containerSize or a slider edit changes
\* the focal point after a move) leaves the cursor at the gesture's baseline
\* plus the latest move delta.
C17_RenderKeepsGesturePosition ==
    [][(last.op = "move" /\ last'.op \in RenderOps)
        => \A a \in Axes :
              PanGetValue(pan')[a] = JsAdd(origin[a], LastPoint[a])]_vars

\* C18: whenever no gesture is active the scroll host is enabled, whether
\* the last gesture was released or aborted.
C18_IdleImpliesScrollEnabled == gesture = "idle" => scrollEnabled


\* ---------------------------------------------- post-locked modal claims
SendStep == lockCalls'.send = lockCalls.send + 1
TickStep == lockCalls'.tick = lockCalls.tick + 1
\* Every tick so far, the one of this step included, answered a request.
NoStrayTick == lockCalls'.stray = 0
UnloadStep == lockCalls'.unload = lockCalls.unload + 1
RefreshEntry == [has |-> TRUE, lock |-> postLock.activePostLock, post_id |-> PostId]
UnlockRequest ==
    [action |-> "wp-remove-post-lock", post_ID |-> PostId,
     active_post_lock |-> postLock.activePostLock]

\* C14: on heartbeat-send the outgoing data gets the entry
\* wp-refresh-post-lock = {lock: activePostLock, post_id: postId} if and only
\* if the post is not locked; when it is locked the data is left as it was.
C14_SendRefreshesIffNotLocked ==
    [][SendStep =>
        sentData' = IF postLock.isLocked THEN NoRefresh ELSE RefreshEntry]_vars

\* A client that has lost the lock to a takeover sends a heartbeat without
\* the refresh entry.
C14_Witness ==
    /\ lockLast.op = "send"
    /\ postLock.isLocked /\ postLock.isTakeover
    /\ sentData = NoRefresh
    /\ inFlight.plain = 1

\* C15: on heartbeat-tick, data without a wp-refresh-post-lock entry changes
\* nothing; an entry with lock_error calls autosave first and then sets
\* isLocked and isTakeover to true with the other user's avatar, whether or
\* not new_lock is present too; otherwise an entry with new_lock sets
\* isLocked to false and activePostLock to the received lock; an entry with
\* neither changes nothing.
C15_ReceivePostLock ==
    [][TickStep =>
        LET data == lockLast'.data
        IN  IF data.has /\ data.lock_error # None
            THEN /\ lockEffects' = <<"autosave", "updatePostLock">>
                 /\ lockCalls'.autosave = lockCalls.autosave + 1
                 /\ postLock'.isLocked /\ postLock'.isTakeover
                 /\ postLock'.avatar = IF data.lock_error = HasError THEN None
                                       ELSE data.lock_error
            ELSE IF data.has /\ data.new_lock # None
            THEN /\ lockEffects' = <<"updatePostLock">>
                 /\ lockCalls'.autosave = lockCalls.autosave
                 /\ ~postLock'.isLocked
                 /\ postLock'.activePostLock = data.new_lock
            ELSE /\ lockEffects' = <<>>
                 /\ lockCalls'.autosave = lockCalls.autosave
                 /\ postLock' = postLock]_vars

\* An answer with both lock_error and new_lock has locked the post.
C15_Witness ==
    /\ lockLast.op = "tick"
    /\ lockLast.data = [has |-> TRUE, lock_error |-> "avatar.png", new_lock |-> "L2"]
    /\ postLock.isLocked /\ postLock.isTakeover /\ postLock.avatar = "avatar.png"
    /\ lockEffects = <<"autosave", "updatePostLock">>

\* C16: on beforeunload exactly one wp-remove-post-lock request with the
\* current activePostLock and post id is posted if and only if the post is
\* not locked and activePostLock is not empty; otherwise none is posted.
C16_ReleaseIffOwnLock ==
    [][UnloadStep =>
        unlockRequests' =
            IF ~postLock.isLocked /\ StringTruthy(postLock.activePostLock)
            THEN Append(unlockRequests, UnlockRequest)
            ELSE unlockRequests]_vars

\* The lock refreshed by the last heartbeat has been released by one request.
C16_Witness ==
    /\ lockLast.op = "unload"
    /\ ~postLock.isLocked /\ postLock.activePostLock = "L2"
    /\ Len(unlockRequests) = 1
    /\ unlockRequests[1].active_post_lock = "L2"

\* C19 as stated: once a tick with lock_error has locked the post, no later
\* step of any interleaving of sends and ticks answering earlier sends
\* unlocks it.
C19_TakeoverStaysLocked ==
    [][(postLock.isLocked /\ postLock.isTakeover /\ NoStrayTick)
        => postLock'.isLocked]_vars

\* C19 amended: once a tick with lock_error has locked the post and no
\* request that carried a lock refresh is still unanswered, the post stays
\* locked and the modal shown, no heartbeat carries a refresh and no unlock
\* request is posted.
C19_TakeoverStaysLockedOnceAnswered ==
    [][(postLock.isLocked /\ postLock.isTakeover /\ inFlight.refresh = 0
        /\ NoStrayTick) =>
        /\ postLock'.isLocked /\ postLock'.isTakeover
        /\ ModalShown(postLock')
        /\ inFlight'.refresh = 0
        /\ SendStep => sentData' = NoRefresh
        /\ unlockRequests' = unlockRequests]_vars

\* After the takeover a later heartbeat has been sent and answered and the
\* page has been unloaded.
C19_Witness ==
    /\ postLock.isLocked /\ postLock.isTakeover
    /\ inFlight = [refresh |-> 0, plain |-> 0]
    /\ lockCalls.send = MaxSends /\ lockCalls.unload = 1
    /\ lockLast.op = "tick" /\ ~lockLast.data.has
    /\ lockCalls.stray = 0
    /\ unlockRequests = <<>>

=========================================================================
